---- MODULE Spec2Model ----
(***************************************************************************)
(* Model of the heartsock websocket server (src/src/websocket.rs): the     *)
(* HeartsockServer actor (on_connect, on_disconnect, on_call) and the      *)
(* HeartsockSession text handler (on_text).  Strings are sequences of      *)
(* one-character strings so that lower-casing, prefix tests, whitespace    *)
(* splitting, u8 parsing and "{}: {}" formatting are computed, not assumed. *)
(***************************************************************************)
EXTENDS Integers, Sequences, FiniteSets, TLC

VARIABLES
    sessions,    \* HeartsockServer.sessions: the ids registered
    latest_id,   \* HeartsockServer.latest_id
    tracker_id,  \* HeartsockServer.tracker_id
    values,      \* HeartsockServer.values
    key_order,   \* the iteration order of the values HashMap
    calls,       \* the calls sent with Server::call and not yet handled
    sent,        \* per session, every text pushed to it, oldest first
    panicked,    \* the server task has panicked
    crashed,     \* the sessions whose task has panicked
    out,         \* the texts pushed by the last handler, in program order
    last,        \* the last handler run and its outcome
    pre,         \* the server's fields when the last handler started
    committed,   \* per key, every value inserted into values, oldest first
    issued,      \* the ids handed out in the run explored, oldest first
    base,        \* latest_id at the start of the run explored
    nevents      \* the transport events so far

vars == <<sessions, latest_id, tracker_id, values, key_order, calls, sent,
          panicked, crashed, out, last, pre, committed, issued, base, nevents>>

\* ---------------------------------------------------------------- bounds
\* largest number of sessions created in a run
MaxId == 3
\* largest number of calls in flight between the sessions and the server
MaxCalls == 2
\* largest number of transport events (connect, disconnect, text line)
MaxEvents == 4
\* the same two limits in the runs that explore the parser
TextMaxId == 2
TextMaxEvents == 3

\* ------------------------------------------------------- string literals
KEY_TRACKER == <<"t", "r", "a", "c", "k", "e", "r">>
KEY_BPM == <<"b", "p", "m">>
KEY_BATTERY == <<"b", "a", "t", "t", "e", "r", "y">>
TXT_PONG == <<"p", "o", "n", "g">>
TXT_OK == <<"o", "k">>
ERR_TRACKER == <<"e", "r", "r", "o", "r", ":", " ", "a", " ", "t", "r", "a", "c", "k", "e", "r", " ", "i", "s", " ", "a", "l", "r", "e", "a", "d", "y", " ", "c", "o", "n", "n", "e", "c", "t", "e", "d">>
ERR_KEY == <<"e", "r", "r", "o", "r", ":", " ", "u", "n", "k", "n", "o", "w", "n", " ", "v", "a", "l", "u", "e", " ", "k", "e", "y">>
ERR_INPUT == <<"e", "r", "r", "o", "r", ":", " ", "u", "n", "k", "n", "o", "w", "n", " ", "i", "n", "p", "u", "t">>
ERR_VAL_PRE == <<"e", "r", "r", "o", "r", ":", " ", "u", "n", "k", "n", "o", "w", "n", " ", "i", "n", "p", "u", "t", " ", "f", "o", "r", " ">>
ERR_VAL_POST == <<" ", "v", "a", "l", "u", "e">>
PFX_SET == <<"s", "e", "t">>
PFX_GET == <<"g", "e", "t">>
UpperChars == <<"A", "B", "C", "D", "E", "F", "G", "H", "I", "J", "K", "L", "M", "N", "O", "P", "Q", "R", "S", "T", "U", "V", "W", "X", "Y", "Z">>
LowerChars == <<"a", "b", "c", "d", "e", "f", "g", "h", "i", "j", "k", "l", "m", "n", "o", "p", "q", "r", "s", "t", "u", "v", "w", "x", "y", "z">>
DigitChars == <<"0", "1", "2", "3", "4", "5", "6", "7", "8", "9">>
WhiteChars == {" ", "\t"}

\* Value = u8
ValueMax == 255

\* ------------------------------------------------------ string functions
\* char::to_lowercase on the ASCII range
UpperSet == {UpperChars[i] : i \in 1..26}
LowerMap == [c \in UpperSet |-> LowerChars[CHOOSE i \in 1..26 : UpperChars[i] = c]]
LowerChar(c) == IF c \in UpperSet THEN LowerMap[c] ELSE c

\* String::to_lowercase
to_lowercase(s) == [i \in 1..Len(s) |-> LowerChar(s[i])]

\* str::starts_with
starts_with(s, p) == Len(s) >= Len(p) /\ SubSeq(s, 1, Len(p)) = p

\* str::split_whitespace(...).collect(): the maximal runs of non-whitespace
RECURSIVE SplitFrom(_, _, _, _)
SplitFrom(s, i, word, parts) ==
    IF i > Len(s)
    THEN IF word = <<>> THEN parts ELSE Append(parts, word)
    ELSE IF s[i] \in WhiteChars
         THEN SplitFrom(s, i + 1, <<>>,
                        IF word = <<>> THEN parts ELSE Append(parts, word))
         ELSE SplitFrom(s, i + 1, Append(word, s[i]), parts)

split_whitespace(s) == SplitFrom(s, 1, <<>>, <<>>)

DigitSet == {DigitChars[d] : d \in 1..10}
DigitMap == [c \in DigitSet |-> (CHOOSE d \in 1..10 : DigitChars[d] = c) - 1]
IsDigit(c) == c \in DigitSet
DigitVal(c) == DigitMap[c]

\* str::parse::<u8>: optional leading "+", then at least one decimal digit,
\* the accumulated value must stay within u8
RECURSIVE ParseDigits(_, _, _)
ParseDigits(s, i, acc) ==
    IF i > Len(s) THEN [ok |-> TRUE, val |-> acc]
    ELSE IF ~IsDigit(s[i]) THEN [ok |-> FALSE, val |-> 0]
    ELSE IF acc * 10 + DigitVal(s[i]) > ValueMax THEN [ok |-> FALSE, val |-> 0]
    ELSE ParseDigits(s, i + 1, acc * 10 + DigitVal(s[i]))

parse_u8(s) ==
    IF s = <<>> THEN [ok |-> FALSE, val |-> 0]
    ELSE IF s[1] \in {"+", "-"} /\ Len(s) = 1 THEN [ok |-> FALSE, val |-> 0]
    ELSE IF s[1] = "+" THEN ParseDigits(s, 2, 0)
    ELSE ParseDigits(s, 1, 0)

\* Display for u8: decimal, no leading zeros
RECURSIVE ToDec(_)
ToDec(n) ==
    IF n < 10 THEN <<DigitChars[n + 1]>>
    ELSE Append(ToDec(n \div 10), DigitChars[(n % 10) + 1])

\* format!("{}: {}", key, val)
FormatKV(key, val) == key \o <<":", " ">> \o ToDec(val)

\* format!("error: unknown input for {} value", key)
FormatValErr(key) == ERR_VAL_PRE \o key \o ERR_VAL_POST

\* ---------------------------------------------------------------- SessionID
\* SessionID = u32, kept at its width as two 16-bit limbs <<high, low>>
LIMB == 65536

\* the id 0, "no session" / "no tracker"
ID_ZERO == <<0, 0>>

\* u32::MAX
ID_MAX == <<LIMB - 1, LIMB - 1>>

\* the u32 with the small value n
Id(n) == <<n \div LIMB, n % LIMB>>

\* x + 1 in u32 arithmetic, wrapping at u32::MAX
id_succ(x) ==
    IF x[2] < LIMB - 1 THEN <<x[1], x[2] + 1>>
    ELSE IF x[1] < LIMB - 1 THEN <<x[1] + 1, 0>>
    ELSE ID_ZERO

\* a <= b as u32
IdLeq(a, b) == a[1] < b[1] \/ (a[1] = b[1] /\ a[2] <= b[2])

\* ---------------------------------------------------------------- Message
Ping(id) == [t |-> "Ping", id |-> id, key |-> <<>>, val |-> 0]
GetVal(id, key) == [t |-> "GetVal", id |-> id, key |-> key, val |-> 0]
SetVal(id, key, val) == [t |-> "SetVal", id |-> id, key |-> key, val |-> val]
NoCall == [t |-> "None", id |-> ID_ZERO, key |-> <<>>, val |-> 0]

\* one Session::text invocation: the text pushed to session `to`; kind tells
\* the place that pushed it (the connect snapshot, notify_sessions, or a reply
\* to the sender)
Send(to, text, kind) == [to |-> to, text |-> text, kind |-> kind]
Snap(to, text) == Send(to, text, "snapshot")
Broadcast(to, text) == Send(to, text, "broadcast")
Reply(to, text) == Send(to, text, "reply")

\* ------------------------------------------------------- on_text (parser)
\* mutant of settable: every key is forwarded to the server
settable_any(key) == TRUE

\* on_text, "Make sure the key is valid": matches!(key, KEY_BPM | KEY_BATTERY)
settable(key) == key \in {KEY_BPM, KEY_BATTERY}

\* the result of HeartsockSession::on_text for one received line: a call
\* forwarded to the server, a direct reply through the session's own handle,
\* or a panic of the session task (index out of bounds on parts[1]/parts[2])
on_text(id, text) ==
    LET cmd == to_lowercase(text)
        parts == split_whitespace(cmd)
    IN  IF starts_with(cmd, PFX_SET)
        THEN IF Len(parts) < 2 THEN [kind |-> "panic", call |-> NoCall, text |-> <<>>]
             ELSE LET key == parts[2] IN
                  IF settable(key)
                  THEN IF Len(parts) < 3
                       THEN [kind |-> "panic", call |-> NoCall, text |-> <<>>]
                       ELSE LET val == parse_u8(parts[3]) IN
                            IF val.ok
                            THEN [kind |-> "call", call |-> SetVal(id, key, val.val), text |-> <<>>]
                            ELSE [kind |-> "reply", call |-> NoCall, text |-> FormatValErr(key)]
                  ELSE [kind |-> "reply", call |-> NoCall, text |-> ERR_KEY]
        ELSE IF starts_with(cmd, PFX_GET)
        THEN IF Len(parts) < 2 THEN [kind |-> "panic", call |-> NoCall, text |-> <<>>]
             ELSE [kind |-> "call", call |-> GetVal(id, parts[2]), text |-> <<>>]
        ELSE IF cmd = <<"p", "i", "n", "g">>
        THEN [kind |-> "call", call |-> Ping(id), text |-> <<>>]
        ELSE [kind |-> "reply", call |-> NoCall, text |-> ERR_INPUT]

\* ------------------------------------------------------------ input lines
L_PING == <<"p", "i", "n", "g">>
L_GET_BPM == <<"g", "e", "t", " ", "b", "p", "m">>
L_GET_FOO == <<"g", "e", "t", " ", "f", "o", "o">>
L_SET_BPM_72 == <<"s", "e", "t", " ", "b", "p", "m", " ", "7", "2">>
L_SET_BPM_80 == <<"S", "E", "T", " ", "B", "P", "M", " ", "8", "0">>
L_SET_BATTERY_5 == <<"s", "e", "t", " ", "b", "a", "t", "t", "e", "r", "y", " ", "5">>
L_SET_BPM_256 == <<"s", "e", "t", " ", "b", "p", "m", " ", "2", "5", "6">>
L_SET_TRACKER_1 == <<"s", "e", "t", " ", "t", "r", "a", "c", "k", "e", "r", " ", "1">>
L_HELLO == <<"h", "e", "l", "l", "o">>
L_SET == <<"s", "e", "t">>

L_GET_TRACKER == <<"g", "e", "t", " ", "t", "r", "a", "c", "k", "e", "r">>
L_GET == <<"g", "e", "t">>
L_SET_BPM == <<"s", "e", "t", " ", "b", "p", "m">>
L_SETTLE == <<"s", "e", "t", "t", "l", "e">>
L_SETTLE_BPM_5 == <<"s", "e", "t", "t", "l", "e", " ", "b", "p", "m", " ", "5">>
L_PING_SP == <<" ", "p", "i", "n", "g", " ">>
L_SET_FOO_1 == <<"s", "e", "t", " ", "f", "o", "o", " ", "1">>
L_SET_BPM_NEG == <<"s", "e", "t", " ", "b", "p", "m", " ", "-", "1">>
L_SET_BPM_ABC == <<"S", "e", "t", " ", "b", "p", "m", " ", "a", "b", "c">>

\* the lines a client sends in the runs explored
Lines == {L_PING, L_GET_BPM, L_GET_FOO, L_SET_BPM_72, L_SET_BPM_80,
          L_SET_BATTERY_5, L_HELLO, L_SET}

\* the lines a client sends in the runs that explore the parser
LinesText == Lines \cup {L_GET_TRACKER, L_GET, L_SET_BPM, L_SETTLE, L_SETTLE_BPM_5,
                         L_PING_SP, L_SET_BPM_256, L_SET_TRACKER_1, L_SET_FOO_1,
                         L_SET_BPM_NEG, L_SET_BPM_ABC}

\* ------------------------------------------------------------ the server
\* the keys of the values map built in run()
Keys == {KEY_TRACKER, KEY_BPM, KEY_BATTERY}

\* the orders in which a HashMap with key set S can be iterated
Perms(S) ==
    {f \in [1..Cardinality(S) -> S] : \A i, j \in 1..Cardinality(S) : i # j => f[i] # f[j]}

\* mutant of get_session: every id is taken as registered
get_session_any(sess, id) == TRUE

\* HeartsockServer::get_session: Ok exactly for a registered id
get_session(sess, id) == id \in sess

\* HeartsockServer::get_val: the stored value; panics on a key not stored
get_val(vals, key) ==
    IF key \in DOMAIN vals THEN [panic |-> FALSE, val |-> vals[key]]
    ELSE [panic |-> TRUE, val |-> 0]

\* mutant of notify_sessions: the tracker is not filtered out
notify_sessions_all(tid, key, val, order) ==
    [i \in 1..Len(order) |-> Broadcast(order[i], FormatKV(key, val))]

\* HeartsockServer::notify_sessions: one text per session other than the
\* tracker, in the map's iteration order
notify_sessions(tid, key, val, order) ==
    LET others == SelectSeq(order, LAMBDA s : s # tid)
    IN  [i \in 1..Len(others) |-> Broadcast(others[i], FormatKV(key, val))]

\* mutant of value_changed: every write counts as a change
value_changed_always(prev, val) == TRUE

\* set_val's test "prev != val"
value_changed(prev, val) == prev # val

\* the outcome of a handler part that does nothing
Untouched(vals, comm) ==
    [values |-> vals, committed |-> comm, out |-> <<>>, panic |-> FALSE]

\* mutant of set_val: the sessions are notified of the value replaced
set_val_stale(vals, comm, tid, key, val, order) ==
    IF key \in DOMAIN vals
    THEN [values |-> [vals EXCEPT ![key] = val],
          committed |-> [comm EXCEPT ![key] = Append(@, val)],
          out |-> IF value_changed(vals[key], val)
                  THEN notify_sessions(tid, key, vals[key], order) ELSE <<>>,
          panic |-> FALSE]
    ELSE [values |-> (key :> val) @@ vals,
          committed |-> comm,
          out |-> <<>>,
          panic |-> TRUE]

\* HeartsockServer::set_val: insert, then notify when the value changed;
\* panics (after the insert) when the key had no old value
set_val(vals, comm, tid, key, val, order) ==
    IF key \in DOMAIN vals
    THEN [values |-> [vals EXCEPT ![key] = val],
          committed |-> [comm EXCEPT ![key] = Append(@, val)],
          out |-> IF value_changed(vals[key], val)
                  THEN notify_sessions(tid, key, val, order) ELSE <<>>,
          panic |-> FALSE]
    ELSE [values |-> (key :> val) @@ vals,
          committed |-> comm,
          out |-> <<>>,
          panic |-> TRUE]

\* the per-session channel: every text is appended to its session's queue
RECURSIVE Deliver(_, _)
Deliver(q, sends) ==
    IF sends = <<>> THEN q
    ELSE LET s == Head(sends) IN
         Deliver(IF s.to \in DOMAIN q
                 THEN [q EXCEPT ![s.to] = Append(@, [text |-> s.text, kind |-> s.kind])]
                 ELSE q,
                 Tail(sends))

Event(ev, id, call, line, res) ==
    [ev |-> ev, id |-> id, call |-> call, line |-> line, res |-> res]

\* the server's fields, as a record
Fields == [sessions |-> sessions, tracker_id |-> tracker_id, values |-> values]

\* run(): the server as constructed, no session yet
Init ==
    /\ sessions = {}
    /\ latest_id = ID_ZERO
    /\ tracker_id = ID_ZERO
    /\ values = [k \in Keys |-> 0]
    /\ key_order \in Perms(Keys)
    /\ calls = <<>>
    /\ sent = [i \in {} |-> <<>>]
    /\ panicked = FALSE
    /\ crashed = {}
    /\ out = <<>>
    /\ last = Event("init", ID_ZERO, NoCall, <<>>, "ok")
    /\ pre = Fields
    /\ committed = [k \in Keys |-> <<0>>]
    /\ issued = <<>>
    /\ base = latest_id
    /\ nevents = 0

\* mutant of Snapshot: nothing is sent on connect, as in the earlier
\* revision of the handler
Snapshot_none(id, vals, korder) == <<>>

\* on_connect's "Send the current values": one text per entry of values, in
\* the map's iteration order
Snapshot(id, vals, korder) ==
    [i \in 1..Len(korder) |-> Snap(id, FormatKV(korder[i], vals[korder[i]]))]

\* HeartsockServer::on_connect.  "self.latest_id += 1" at u32::MAX panics in
\* a build with overflow checks and wraps to 0 in a build without; the source
\* does not fix the build, so both outcomes are taken.
OnConnect ==
    /\ ~panicked
    /\ nevents < MaxEvents
    /\ Len(issued) < MaxId
    /\ nevents' = nevents + 1
    /\ pre' = Fields
    /\ UNCHANGED <<tracker_id, values, key_order, calls, crashed, committed, base>>
    /\ \E overflow_checks \in BOOLEAN :
         IF latest_id = ID_MAX /\ overflow_checks
         THEN /\ panicked' = TRUE
              /\ out' = <<>>
              /\ last' = Event("connect", ID_ZERO, NoCall, <<>>, "panic")
              /\ UNCHANGED <<latest_id, sessions, sent, issued>>
         ELSE LET id == id_succ(latest_id) IN
              /\ latest_id' = id
              /\ sessions' = sessions \cup {id}
              /\ issued' = Append(issued, id)
              /\ out' = Snapshot(id, values, key_order)
              /\ sent' = Deliver((id :> <<>>) @@ sent, out')
              /\ last' = Event("connect", id, NoCall, <<>>, "ok")
              /\ UNCHANGED panicked

\* mutant of TrackerLost: losing the tracker also clears what it wrote
TrackerLost_clear(id, tid, vals, comm, order) ==
    IF id = tid
    THEN [values |-> [k \in DOMAIN vals |-> 0], committed |-> comm,
          out |-> notify_sessions(ID_ZERO, KEY_TRACKER, 0, order),
          panic |-> FALSE, tracker_id |-> ID_ZERO]
    ELSE Untouched(vals, comm) @@ [tracker_id |-> tid]

\* mutant of TrackerLost: tracker_id is reset without set_val, as the
\* earlier revision of the handler did
TrackerLost_old(id, tid, vals, comm, order) ==
    Untouched(vals, comm) @@ [tracker_id |-> IF id = tid THEN ID_ZERO ELSE tid]

\* on_disconnect after the removal: reset the tracker when it was the session
\* removed (remaining = the sessions left, order = their iteration order)
TrackerLost(id, tid, vals, comm, order) ==
    IF id = tid
    THEN set_val(vals, comm, ID_ZERO, KEY_TRACKER, 0, order) @@ [tracker_id |-> ID_ZERO]
    ELSE Untouched(vals, comm) @@ [tracker_id |-> tid]

\* HeartsockServer::on_disconnect
OnDisconnect(id) ==
    /\ ~panicked
    /\ nevents < MaxEvents
    /\ nevents' = nevents + 1
    /\ pre' = Fields
    /\ UNCHANGED <<key_order, calls, crashed, issued, base>>
    /\ IF id \notin sessions
       THEN /\ panicked' = TRUE
            /\ out' = <<>>
            /\ last' = Event("disconnect", id, NoCall, <<>>, "panic")
            /\ UNCHANGED <<sessions, latest_id, tracker_id, values, sent, committed>>
       ELSE /\ sessions' = sessions \ {id}
            /\ \E order \in Perms(sessions') :
                 LET r == TrackerLost(id, tracker_id, values, committed, order)
                 IN  /\ tracker_id' = r.tracker_id
                     /\ values' = r.values
                     /\ committed' = r.committed
                     /\ out' = r.out
                     /\ panicked' = r.panic
                     /\ last' = Event("disconnect", id, NoCall, <<>>,
                                      IF r.panic THEN "panic" ELSE "ok")
            /\ sent' = Deliver(sent, out')
            /\ UNCHANGED latest_id

\* mutant of PingStep: "pong" is sent without looking the session up
PingStep_unchecked(id) == [res |-> "ok", out |-> <<Reply(id, TXT_PONG)>>]

\* the outcome of on_call for Message::Ping
PingStep(id) ==
    IF get_session(sessions, id)
    THEN [res |-> "ok", out |-> <<Reply(id, TXT_PONG)>>]
    ELSE [res |-> "err", out |-> <<>>]

\* mutant of GetValStep: the reply carries the value without its key
GetValStep_bare(id, key) ==
    IF ~get_session(sessions, id) THEN [res |-> "err", out |-> <<>>]
    ELSE IF get_val(values, key).panic THEN [res |-> "panic", out |-> <<>>]
    ELSE [res |-> "ok", out |-> <<Reply(id, ToDec(get_val(values, key).val))>>]

\* the outcome of on_call for Message::GetVal
GetValStep(id, key) ==
    IF ~get_session(sessions, id) THEN [res |-> "err", out |-> <<>>]
    ELSE IF get_val(values, key).panic THEN [res |-> "panic", out |-> <<>>]
    ELSE [res |-> "ok", out |-> <<Reply(id, FormatKV(key, get_val(values, key).val))>>]

\* mutant of tracker_free: every SetVal takes the tracker slot
tracker_free_always(tid) == TRUE

\* SetVal, "if self.tracker_id == 0": the tracker slot is free
tracker_free(tid) == tid = ID_ZERO

\* mutant of claim_tracker: tracker_id is taken without set_val, as the
\* earlier revision of the handler did
claim_tracker_old(vals, comm, id, order) == Untouched(vals, comm)

\* SetVal, "Make this session the tracker if there isn't one": the tracker
\* value becomes 1 through set_val
claim_tracker(vals, comm, id, order) == set_val(vals, comm, id, KEY_TRACKER, 1, order)

\* mutant of is_tracker: the writer is never compared with the tracker
is_tracker_any(tid, id) == TRUE

\* SetVal, "If there is already a tracker, make sure it's this session"
is_tracker(tid, id) == tid = id

\* mutant of SetValOut: the reply is sent before the notifications, as the
\* earlier revision of the handler did
SetValOut_old(claimed, written, reply) == <<reply>> \o claimed \o written

\* SetVal, the order of its texts: the claim's, the write's, then the reply
SetValOut(claimed, written, reply) == claimed \o written \o <<reply>>

\* the outcome of on_call for Message::SetVal
SetValStep(id, key, val, order) ==
    IF ~get_session(sessions, id)
    THEN [res |-> "err", tracker_id |-> tracker_id, values |-> values,
          committed |-> committed, out |-> <<>>]
    ELSE LET claim == tracker_free(tracker_id)
             tid == IF claim THEN id ELSE tracker_id
             r1 == IF claim THEN claim_tracker(values, committed, id, order)
                   ELSE Untouched(values, committed)
             r2 == IF r1.panic THEN r1
                   ELSE IF is_tracker(tid, id)
                   THEN set_val(r1.values, r1.committed, tid, key, val, order)
                   ELSE Untouched(r1.values, r1.committed)
             reply == Reply(id, IF is_tracker(tid, id) THEN TXT_OK ELSE ERR_TRACKER)
         IN  IF r1.panic \/ r2.panic
             THEN [res |-> "panic", tracker_id |-> tid, values |-> r2.values,
                   committed |-> r2.committed, out |-> r1.out]
             ELSE [res |-> "ok", tracker_id |-> tid, values |-> r2.values,
                   committed |-> r2.committed, out |-> SetValOut(r1.out, r2.out, reply)]

\* HeartsockServer::on_call: the server takes the oldest call in flight
OnCall ==
    /\ ~panicked
    /\ calls # <<>>
    /\ LET call == Head(calls) IN
       \E order \in Perms(sessions) :
         LET same == [tracker_id |-> tracker_id, values |-> values, committed |-> committed]
             r == IF call.t = "Ping" THEN PingStep(call.id) @@ same
                  ELSE IF call.t = "GetVal" THEN GetValStep(call.id, call.key) @@ same
                  ELSE SetValStep(call.id, call.key, call.val, order)
         IN  /\ tracker_id' = r.tracker_id
             /\ values' = r.values
             /\ committed' = r.committed
             /\ out' = r.out
             /\ panicked' = (r.res = "panic")
             /\ last' = Event("call", call.id, call, <<>>, r.res)
    /\ calls' = Tail(calls)
    /\ sent' = Deliver(sent, out')
    /\ pre' = Fields
    /\ UNCHANGED <<sessions, latest_id, key_order, crashed, issued, base, nevents>>

\* HeartsockSession::on_text: session id receives one line from its client
OnText(id, line) ==
    /\ id \in sessions \ crashed
    /\ nevents < MaxEvents
    /\ nevents' = nevents + 1
    /\ LET r == on_text(id, line) IN
         /\ r.kind = "call" => Len(calls) < MaxCalls
         /\ calls' = IF r.kind = "call" THEN Append(calls, r.call) ELSE calls
         /\ out' = IF r.kind = "reply" THEN <<Reply(id, r.text)>> ELSE <<>>
         /\ crashed' = IF r.kind = "panic" THEN crashed \cup {id} ELSE crashed
         /\ last' = Event("text", id, r.call, line, r.kind)
    /\ sent' = Deliver(sent, out')
    /\ pre' = Fields
    /\ UNCHANGED <<sessions, latest_id, tracker_id, values, key_order, panicked,
                   committed, issued, base>>

Next ==
    \/ OnConnect
    \/ \E id \in sessions : OnDisconnect(id)
    \/ OnCall
    \/ \E id \in sessions, line \in Lines : OnText(id, line)

Spec == Init /\ [][Next]_vars

\* ------------------------------------------------------------ observation
\* the texts the last handler pushed to session s, in order
TextsTo(s) ==
    LET mine == SelectSeq(out, LAMBDA m : m.to = s)
    IN  [i \in 1..Len(mine) |-> mine[i].text]

\* how many times text t occurs in the sequence q
Count(q, t) == Cardinality({i \in 1..Len(q) : q[i] = t})

\* the last handler was on_call for a SetVal of a registered session
SetValHandled ==
    /\ last.ev = "call"
    /\ last.call.t = "SetVal"
    /\ last.id \in pre.sessions

TypeOK ==
    /\ sessions \subseteq DOMAIN sent
    /\ tracker_id \in DOMAIN sent \cup {ID_ZERO}
    /\ DOMAIN values = Keys
    /\ \A k \in Keys : values[k] \in 0..ValueMax

\* ----------------------------------------------------------------- claims
\* the texts "tracker: 0" and "tracker: 1", as a client reads them
T_TRACKER_0 == <<"t", "r", "a", "c", "k", "e", "r", ":", " ", "0">>
T_TRACKER_1 == <<"t", "r", "a", "c", "k", "e", "r", ":", " ", "1">>

\* C1: in every reachable state tracker_id is 0 or the id of a session
\* currently in the sessions map.
C1_TrackerRegistered == tracker_id = ID_ZERO \/ tracker_id \in sessions

\* C1 witness: a SetVal still in flight when its session was removed is
\* handled while the tracker slot is free (the case that could leave
\* tracker_id dangling).
C1_Witness ==
    /\ last.ev = "call"
    /\ last.call.t = "SetVal"
    /\ last.id \notin pre.sessions
    /\ pre.tracker_id = ID_ZERO

\* C2: a SetVal from a registered session B while another session holds the
\* tracker claim changes no value and not tracker_id, and the only text sent
\* is "error: a tracker is already connected", to B.
C2_ConflictRejected ==
    (SetValHandled /\ pre.tracker_id # ID_ZERO /\ pre.tracker_id # last.id)
        => /\ values = pre.values
           /\ tracker_id = pre.tracker_id
           /\ out = <<Reply(last.id, ERR_TRACKER)>>
           /\ \A s \in DOMAIN sent : s # last.id => TextsTo(s) = <<>>

\* C2 witness: a SetVal of a registered non-tracker session has been handled
\* while the tracker is registered.
C2_Witness ==
    /\ SetValHandled
    /\ pre.tracker_id # ID_ZERO
    /\ pre.tracker_id # last.id
    /\ pre.tracker_id \in sessions

\* C3: a SetVal of the tracker that rewrites a key to the value it already
\* has sends "ok" to the writer, nothing to anyone else, and leaves the store
\* unchanged.
C3_NoOpWriteSilent ==
    (SetValHandled /\ pre.tracker_id = last.id
                   /\ pre.values[last.call.key] = last.call.val)
        => /\ out = <<Reply(last.id, TXT_OK)>>
           /\ values = pre.values

\* C3 witness: the tracker rewrote a nonzero value while another session was
\* registered.
C3_Witness ==
    /\ SetValHandled
    /\ pre.tracker_id = last.id
    /\ pre.values[last.call.key] = last.call.val
    /\ last.call.val # 0
    /\ sessions \ {last.id} # {}

\* C4: when the tracker session disconnects, tracker_id and the tracker value
\* become 0 and "tracker: 0" is sent exactly once to every session still
\* registered, and nothing to any other session.
C4_TrackerLostBroadcast ==
    (last.ev = "disconnect" /\ last.id \in pre.sessions /\ pre.tracker_id = last.id)
        => /\ tracker_id = ID_ZERO
           /\ values[KEY_TRACKER] = 0
           /\ sessions = pre.sessions \ {last.id}
           /\ \A s \in DOMAIN sent :
                TextsTo(s) = IF s \in sessions THEN <<T_TRACKER_0>> ELSE <<>>

\* C4 witness: the tracker disconnected while another session was registered.
C4_Witness ==
    /\ last.ev = "disconnect"
    /\ last.id \in pre.sessions
    /\ pre.tracker_id = last.id
    /\ sessions # {}

\* the text is a "<key>: <value>" line for key k
KeyLine(text, k) == starts_with(text, k \o <<":", " ">>)

\* the texts "bpm: 72" and "bpm: 80", as a client reads them
T_BPM_72 == <<"b", "p", "m", ":", " ", "7", "2">>
T_BPM_80 == <<"b", "p", "m", ":", " ", "8", "0">>

\* C5: on connect the new session is sent exactly one "<key>: <value>" line
\* for each of tracker, bpm and battery, carrying the values stored when it
\* was registered; the handler changes no value in between, and the three
\* lines are the first three texts of the session's queue, ahead of every
\* later broadcast or reply.
C5_SnapshotOnConnect ==
    /\ last.ev = "connect" =>
         /\ values = pre.values
         /\ tracker_id = pre.tracker_id
         /\ sessions = pre.sessions \cup {last.id}
         /\ Len(out) = 3
         /\ \A i \in 1..Len(out) : out[i].to = last.id
         /\ \A i \in 1..Len(out) : out[i].kind = "snapshot"
         /\ Len(sent[last.id]) = 3
         /\ \A i \in 1..3 : sent[last.id][i].text = out[i].text
         /\ \A k \in Keys : Count(TextsTo(last.id), FormatKV(k, pre.values[k])) = 1
    /\ \A s \in DOMAIN sent :
         /\ Len(sent[s]) >= 3
         /\ \A k \in Keys : Cardinality({i \in 1..3 : KeyLine(sent[s][i].text, k)}) = 1

\* C5 witness: a session that joined after bpm was set to 72 got "bpm: 72" in
\* its snapshot and the later change to 80 right after the snapshot.
C5_Witness ==
    \E s \in DOMAIN sent :
        /\ Len(sent[s]) > 3
        /\ \E i \in 1..3 : sent[s][i].text = T_BPM_72
        /\ sent[s][4].text = T_BPM_80

\* C6: a SetVal of a registered session handled while tracker_id = 0 makes
\* that session the tracker and the tracker value 1, sends "tracker: 1" once
\* to every other registered session, and sends the claiming session only
\* "ok".
C6_ClaimOnFirstSet ==
    (SetValHandled /\ pre.tracker_id = ID_ZERO)
        => /\ tracker_id = last.id
           /\ values[KEY_TRACKER] = 1
           /\ \A s \in sessions \ {last.id} : Count(TextsTo(s), T_TRACKER_1) = 1
           /\ TextsTo(last.id) = <<TXT_OK>>

\* C6 witness: a session claimed the tracker slot while two other sessions
\* were registered.
C6_Witness ==
    /\ SetValHandled
    /\ pre.tracker_id = ID_ZERO
    /\ Cardinality(sessions \ {last.id}) >= 2

\* C7: for a SetVal that claims the tracker slot and changes a value, every
\* other registered session is sent "tracker: 1" and then the "<key>: <value>"
\* line, and the writer's "ok" is the last text of the handler, sent with the
\* claim applied.
C7_ClaimBeforeValue ==
    (SetValHandled /\ pre.tracker_id = ID_ZERO
                   /\ pre.values[last.call.key] # last.call.val)
        => /\ \A s \in sessions \ {last.id} :
                TextsTo(s) = <<T_TRACKER_1, FormatKV(last.call.key, last.call.val)>>
           /\ out # <<>>
           /\ out[Len(out)] = Reply(last.id, TXT_OK)
           /\ \A i \in 1..(Len(out) - 1) : out[i].to # last.id
           /\ tracker_id = last.id

\* C7 witness: a claiming SetVal changed bpm to 72 while another session was
\* registered, which was sent "tracker: 1" and "bpm: 72".
C7_Witness ==
    /\ SetValHandled
    /\ pre.tracker_id = ID_ZERO
    /\ \E s \in sessions \ {last.id} : TextsTo(s) = <<T_TRACKER_1, T_BPM_72>>

\* C8: an accepted SetVal that changes a stored value sends its
\* "<key>: <value>" line exactly once to each registered session other than
\* the tracker, and to no one else (not to the tracker, not to a removed
\* session).
C8_BroadcastExactlyOthers ==
    (SetValHandled /\ tracker_id = last.id
                   /\ pre.values[last.call.key] # last.call.val)
        => \A s \in DOMAIN sent :
             Count(TextsTo(s), FormatKV(last.call.key, last.call.val))
                 = IF s \in sessions \ {tracker_id} THEN 1 ELSE 0

\* C8 witness: the session already holding the claim changed a value while
\* another session was registered.
C8_Witness ==
    /\ SetValHandled
    /\ tracker_id = last.id
    /\ pre.tracker_id = last.id
    /\ pre.values[last.call.key] # last.call.val
    /\ sessions \ {last.id} # {}

\* the values the texts of the kinds given carry for key k in session queue
\* q, in the order received
SeenVals(q, k, kinds) ==
    LET lines == SelectSeq(q, LAMBDA m : m.kind \in kinds /\ KeyLine(m.text, k))
    IN  [i \in 1..Len(lines) |->
            parse_u8(SubSeq(lines[i].text, Len(k) + 3, Len(lines[i].text))).val]

\* the values a session is pushed: its snapshot line and the broadcasts
Pushed == {"snapshot", "broadcast"}

\* a is a subsequence of b
RECURSIVE IsSubseq(_, _)
IsSubseq(a, b) ==
    IF a = <<>> THEN TRUE
    ELSE IF b = <<>> THEN FALSE
    ELSE IF Head(a) = Head(b) THEN IsSubseq(Tail(a), Tail(b))
    ELSE IsSubseq(a, Tail(b))

\* C9: for each session and key, the values the session receives for the key
\* (snapshot line, then broadcasts and replies) are, in order, a subsequence
\* of the values committed to the store for that key.
C9_MonotonicVisibility ==
    \A s \in DOMAIN sent : \A k \in Keys : IsSubseq(SeenVals(sent[s], k, Pushed), committed[k])

\* C9 witness: a session that joined after the first write saw bpm 72 then 80
\* while the store went 0, 72, 80.
C9_Witness ==
    /\ committed[KEY_BPM] = <<0, 72, 80>>
    /\ \E s \in DOMAIN sent : SeenVals(sent[s], KEY_BPM, Pushed) = <<72, 80>>

\* the prefix of every error text
PFX_ERROR == <<"e", "r", "r", "o", "r", ":">>

\* C10: a get for a key outside tracker, bpm, battery is answered with an
\* error text to the sender only, does not abort the server and changes no
\* state.
C10_UnknownKeyAnswered ==
    (last.ev = "call" /\ last.call.t = "GetVal" /\ last.id \in pre.sessions
                      /\ last.call.key \notin Keys)
        => /\ ~panicked
           /\ Len(out) = 1
           /\ out[1].to = last.id
           /\ starts_with(out[1].text, PFX_ERROR)
           /\ Fields = pre

\* the replies the last handler sent to session s
RepliesTo(s) == SelectSeq(out, LAMBDA m : m.to = s /\ m.kind = "reply")

\* C11: every line received from a registered session produces exactly one
\* direct reply to its sender: on_text either replies itself or forwards a
\* call, and the call's handler replies once.
C11_OneReplyPerLine ==
    /\ last.ev = "text" =>
         \/ last.res = "call" /\ out = <<>>
         \/ last.res = "reply" /\ Len(out) = 1 /\ Len(RepliesTo(last.id)) = 1
    /\ (last.ev = "call" /\ last.id \in pre.sessions) =>
         /\ ~panicked
         /\ Len(RepliesTo(last.id)) = 1

\* the server with a transport that may also deliver a disconnect for an id
\* it has handed out and that is no longer registered (a second disconnect)
NextDup ==
    \/ Next
    \/ \E id \in (DOMAIN sent) \ sessions : OnDisconnect(id)

SpecDup == Init /\ [][NextDup]_vars

\* C12: a disconnect for an id that is not in the registry is harmless: it
\* changes neither sessions, tracker_id nor the values, and the server goes
\* on.
C12_UnknownDisconnectHarmless ==
    (last.ev = "disconnect" /\ last.id \notin pre.sessions)
        => /\ Fields = pre
           /\ ~panicked

\* the server after 2^32 - 2 sessions have connected and disconnected again
\* without writing a value: the fields are as after construction except
\* latest_id = u32::MAX - 1, and every id in 1..latest_id has been used
InitWrap ==
    /\ sessions = {}
    /\ latest_id = <<LIMB - 1, LIMB - 2>>
    /\ tracker_id = ID_ZERO
    /\ values = [k \in Keys |-> 0]
    /\ key_order \in Perms(Keys)
    /\ calls = <<>>
    /\ sent = [i \in {} |-> <<>>]
    /\ panicked = FALSE
    /\ crashed = {}
    /\ out = <<>>
    /\ last = Event("init", ID_ZERO, NoCall, <<>>, "ok")
    /\ pre = Fields
    /\ committed = [k \in Keys |-> <<0>>]
    /\ issued = <<>>
    /\ base = latest_id
    /\ nevents = 0

SpecWrap == InitWrap /\ [][Next]_vars

\* C13: every id assigned by on_connect is nonzero and differs from the id
\* of every other session created in this run: from those created before
\* the observed connects (the ids 1..base) and from each other, also when
\* latest_id reaches the largest 32-bit value.
C13_IdsNonzeroUnique ==
    \A i \in 1..Len(issued) :
        /\ issued[i] # ID_ZERO
        /\ ~IdLeq(issued[i], base)
        /\ \A j \in 1..Len(issued) : i # j => issued[i] # issued[j]

\* C14: the tracker claim is first-come without preemption: a SetVal of a
\* registered session handled while tracker_id = 0 makes that session the
\* tracker, and a nonzero tracker_id changes only by the disconnect of the
\* session it names (to 0), never by a command.
C14_FirstComeNoPreemption ==
    /\ (SetValHandled /\ pre.tracker_id = ID_ZERO) => tracker_id = last.id
    /\ (pre.tracker_id # ID_ZERO /\ tracker_id # pre.tracker_id)
         => /\ last.ev = "disconnect"
            /\ last.id = pre.tracker_id
            /\ tracker_id = ID_ZERO

\* C14 witness: two sessions had a SetVal in flight; the first one handled
\* holds the claim, and the second one's SetVal has been handled too.
C14_Witness ==
    /\ SetValHandled
    /\ committed[KEY_TRACKER] = <<0, 1>>
    /\ tracker_id \in sessions \ {last.id}
    /\ tracker_id = pre.tracker_id
    /\ calls = <<>>

\* the server with clients that send every line of LinesText, in runs of at
\* most TextMaxEvents transport events and TextMaxId sessions
NextText ==
    \/ nevents < TextMaxEvents /\ Len(issued) < TextMaxId /\ OnConnect
    \/ \E id \in sessions : nevents < TextMaxEvents /\ OnDisconnect(id)
    \/ OnCall
    \/ \E id \in sessions, line \in LinesText :
         nevents < TextMaxEvents /\ OnText(id, line)

SpecText == Init /\ [][NextText]_vars

\* the last handler was on_call for a Ping, or a GetVal of a stored key, of
\* a registered session
ReadHandled ==
    /\ last.ev = "call"
    /\ last.id \in pre.sessions
    /\ \/ last.call.t = "Ping"
       \/ last.call.t = "GetVal" /\ last.call.key \in Keys

\* C15: Ping and GetVal of a stored key (tracker included) leave sessions,
\* tracker_id and every stored value unchanged and send exactly one text, to
\* the requesting session: "pong" for Ping, "<key>: <stored value>" for
\* GetVal.
C15_ReadsChangeNothing ==
    ReadHandled =>
        /\ Fields = pre
        /\ ~panicked
        /\ Len(out) = 1
        /\ out[1].to = last.id
        /\ last.call.t = "Ping" => out[1].text = <<"p", "o", "n", "g">>
        /\ last.call.t = "GetVal" =>
             /\ out[1].text = last.call.key \o <<":", " ">> \o ToDec(pre.values[last.call.key])
             /\ (last.call.key = KEY_TRACKER /\ pre.values[KEY_TRACKER] = 1)
                  => out[1].text = T_TRACKER_1
             /\ (last.call.key = KEY_BPM /\ pre.values[KEY_BPM] = 72)
                  => out[1].text = T_BPM_72

\* C15 witness: "get tracker" is answered with the stored tracker value and
\* nothing else is sent, while another session is registered.
C15_Witness ==
    /\ ReadHandled
    /\ last.call.t = "GetVal"
    /\ last.call.key = KEY_TRACKER
    /\ TextsTo(last.id) \in {<<T_TRACKER_0>>, <<T_TRACKER_1>>}
    /\ sessions \ {last.id} # {}

\* lines that are none of "ping", "get <key>", "set <key> <value>"
MalformedLines == {L_SET, L_GET, L_SET_BPM, L_SETTLE, L_PING_SP, L_HELLO}

\* C16: a line that is not ping, get <key> or set <key> <value> is answered
\* with "error: unknown input" to its sender only, forwards no call to the
\* server and does not abort the session that received it.
C16_MalformedAnswered ==
    (last.ev = "text" /\ last.line \in MalformedLines) =>
        /\ out = <<Reply(last.id, ERR_INPUT)>>
        /\ last.res = "reply"
        /\ last.id \notin crashed

\* the decimal texts of the integers 0..255
U8Texts == {ToDec(n) : n \in 0..ValueMax}

\* the line is a set with a key and a value whose key is not bpm or battery
\* or whose value is not an integer in 0..255
BadSet(line) ==
    LET parts == split_whitespace(to_lowercase(line))
    IN  /\ Len(parts) = 3
        /\ parts[1] = PFX_SET
        /\ \/ parts[2] \notin {KEY_BPM, KEY_BATTERY}
           \/ parts[3] \notin U8Texts

\* C17: a set whose key is not bpm or battery (tracker included) or whose
\* value is not an integer in 0..255 is answered with one error text to its
\* sender only: no call is forwarded to the server, and sessions, tracker_id
\* and the values are unchanged.
C17_BadSetRejected ==
    (last.ev = "text" /\ BadSet(last.line)) =>
        /\ last.res = "reply"
        /\ last.call = NoCall
        /\ Fields = pre
        /\ Len(out) = 1
        /\ out[1].to = last.id
        /\ out[1].kind = "reply"
        /\ starts_with(out[1].text, PFX_ERROR)
        /\ last.id \notin crashed

\* C17 witness: "set tracker 1" is sent while the tracker slot is free and
\* another session is registered, and is answered "error: unknown value key".
C17_Witness ==
    /\ last.ev = "text"
    /\ last.line = L_SET_TRACKER_1
    /\ BadSet(last.line)
    /\ pre.tracker_id = ID_ZERO
    /\ sessions \ {last.id} # {}
    /\ TextsTo(last.id) = <<ERR_KEY>>

LastWritten(k) == committed[k][Len(committed[k])]

\* C20: the disconnect of any session leaves the stored bpm and battery
\* values unchanged and sends no bpm or battery line; only the tracker flag
\* may be reset. A session that connects afterwards is shown the last bpm
\* and battery values written.
C20_DisconnectKeepsValues ==
    /\ last.ev = "disconnect" =>
         /\ values[KEY_BPM] = pre.values[KEY_BPM]
         /\ values[KEY_BATTERY] = pre.values[KEY_BATTERY]
         /\ \A i \in 1..Len(out) : KeyLine(out[i].text, KEY_TRACKER)
    /\ \A k \in {KEY_BPM, KEY_BATTERY} : values[k] = LastWritten(k)
    /\ (last.ev = "connect" /\ last.res = "ok") =>
         \A k \in {KEY_BPM, KEY_BATTERY} :
             Count(TextsTo(last.id), k \o <<":", " ">> \o ToDec(LastWritten(k))) = 1

\* C20 witness: a session connects after the tracker that wrote bpm 72 has
\* disconnected; its snapshot shows "bpm: 72" and "tracker: 0".
C20_Witness ==
    /\ last.ev = "connect"
    /\ committed[KEY_TRACKER] = <<0, 1, 0>>
    /\ Count(TextsTo(last.id), T_BPM_72) = 1
    /\ Count(TextsTo(last.id), T_TRACKER_0) = 1

====
